---- MODULE Spec2Model ----
(***************************************************************************)
(* Verification model of the networking and protocol layer of agvGUI:      *)
(*   netClient.py   NetClient: one TCP socket, one receive thread per      *)
(*                  connect, a bounded queue of raw chunks                 *)
(*   imuService.py  ImuStreamParser (32-byte telemetry packets) and        *)
(*                  ImuService (the sample ring and its reads)             *)
(*                                                                         *)
(* Spec       NetClient under the interleaving of the calling (GUI) thread *)
(*            with the receive threads; one step per statement that reads  *)
(*            or writes shared state.                                      *)
(* FairSpec   Spec with the scheduling fairness of running threads.        *)
(* SpecRing   ImuService: batches appended to the ring by _loop, and the   *)
(*            get_since_seq reads.                                         *)
(* SpecSplit  ImuStreamParser.feed on one valid packet, fed in two calls   *)
(*            and in one.                                                  *)
(* SpecResync ImuStreamParser.feed on a frame with a corrupt header.       *)
(* SpecLidar  lidarParser.py, RPLidarA1Parser.feed on garbage and a node.  *)
(* SpecDiscover  NetClient.discover_udp over the beacons of one scan.      *)
(* SpecSvc    ImuService.start, stop and _loop over an idealised NetClient.*)
(* SpecRemain both parsers' feed on streams cut into chunks anywhere.      *)
(* SpecStatus ImuService.status against the locked append of _loop, one    *)
(*            step per statement.                                          *)
(* SpecRestart  SpecSvc with peers whose packets arrive in partial chunks. *)
(***************************************************************************)
EXTENDS Integers, Sequences, FiniteSets, TLC

\* ------------------------------------------------------------------ bounds
\* Sockets one run opens. Socket k is created by the k-th successful
\* connect(), whose receive thread is thread k.
MaxConn == 2
\* Capacity of rx_queue in the model (the code's maxsize is 2000 chunks).
RxQueueMax == 1

\* ------------------------------------------------------------- NetClient
\* A step is one access to state the threads share (self.sock, self._stop,
\* self.rx_queue, a socket), together with the thread-local statements
\* around it (a call, a status_cb notification, a return).
VARIABLES
    sock,        \* self.sock: None or the socket
    open,        \* the sockets that are open (created and not closed)
    _stop,       \* self._stop (threading.Event): TRUE when set
    rx_queue,    \* self.rx_queue: chunks, oldest first; a chunk is named by its socket
    _rx_thread,  \* self._rx_thread: None or the thread last started
    status,      \* the message the last step passed to status_cb ("" when it made no call)
    returned,    \* the caller's NetClient call that returned in the last step, with its value
    pc,          \* per thread: the statement it is at
    ret,         \* per thread: what its running disconnect() was called from
    ds,          \* per thread: the local s of its running disconnect()
    cs,          \* the local s of the running connect()
    ss,          \* the local s of the running send()
    tries,       \* sendall() calls made by the running send()
    write_error, \* whether a sendall() of the running send() raised OSError
    put,         \* the outcome of the put_nowait() of the last step: "", "queued" or "Full"
    nconn,       \* sockets created so far
    ndisc,       \* consecutive disconnect() calls the caller has completed (up to 2)
    raised       \* whether an exception ever escaped a NetClient method

netVars == <<sock, open, _stop, rx_queue, _rx_thread, status, returned, pc, ret, ds,
             cs, ss, tries, write_error, put, nconn, ndisc, raised>>

\* ------------------------------------------------------------ ImuService
VARIABLES
    _buf,        \* self._buf: deque(maxlen=buf_max), oldest sample first
    _rx_packets, \* self._rx_packets
    _last_seq,   \* self._last_seq: "None" or the seq of the last sample appended
    appended,    \* every sample ever appended, in append order (history)
    query,       \* the last read call and its argument
    reply        \* the list that read returned

ringVars == <<_buf, _rx_packets, _last_seq, appended, query, reply>>

\* ------------------------------------------------------- ImuStreamParser
VARIABLES
    pkt,         \* the bytes under test
    cut,         \* the offset they are split at, at which their valid packet
                 \* begins, or up to which they have been fed
    p_buf,       \* parser.buf of the parser fed in two calls
    p_out,       \* the samples its feed calls returned, in order
    p_fed,       \* feed calls made on it (counted up to 2)
    w_buf,       \* parser.buf of the parser fed in one call
    w_out,       \* the samples its feed call returned
    w_fed        \* feed calls made on it

imuVars == <<pkt, cut, p_buf, p_out, p_fed, w_buf, w_out, w_fed>>

\* ------------------------------------------------------- RPLidarA1Parser
VARIABLES
    l_in,        \* the byte stream under test
    l_glen,      \* how many leading bytes of it are garbage
    l_pos,       \* how many of its bytes have been fed
    l_buf,       \* parser.buf
    l_out,       \* the points the feed calls returned, in order
    l_steps      \* the passes of the while loop so far: offset in the stream, advance, emitted

lidarVars == <<l_in, l_glen, l_pos, l_buf, l_out, l_steps>>

\* ---------------------------------------------------- NetClient.discover_udp
VARIABLES
    d_found,     \* found: the dict, as its items in insertion order
    d_recv,      \* the datagram texts received so far in the scan
    d_done,      \* whether discover_udp has returned
    d_result     \* the list it returned

discVars == <<d_found, d_recv, d_done, d_result>>

\* ------------------------------------------- ImuService.start, stop, _loop
VARIABLES
    svc_stop,    \* ImuService._stop (threading.Event): TRUE when set
    _th,         \* ImuService._th: 0 or the consumer thread last started
    svc_pc,      \* the statement the calling thread is at in start()
    th_pc,       \* per consumer thread: the statement of _loop it is at
    th_chunk,    \* per consumer thread: its local chunk
    th_pkts,     \* per consumer thread: its local pkts
    parser_buf,  \* self.parser.buf
    net_conn,    \* self.net: 0 or the connection it holds
    net_nconn,   \* connections self.net has opened
    net_queue,   \* self.net.rx_queue: chunks, oldest first, each with its connection
    peer_last    \* per connection: the seq of the last packet its peer sent, 0 before
                 \* (in SpecRestart: how many bytes its peer has sent)

svcVars == <<svc_stop, _th, svc_pc, th_pc, th_chunk, th_pkts, parser_buf, net_conn,
             net_nconn, net_queue, peer_last>>

extraVars == <<lidarVars, discVars, svcVars>>

\* What the actions of one part leave alone
nonLidar == <<netVars, ringVars, imuVars, discVars, svcVars>>

nonDisc == <<netVars, ringVars, imuVars, lidarVars, svcVars>>

nonSvc == <<netVars, imuVars, lidarVars, discVars>>

nonNet == <<ringVars, imuVars, extraVars>>

vars == <<netVars, ringVars, imuVars, extraVars>>

\* The parts of the state a specification does not use stay as they start.
RingIdle ==
    /\ _buf = <<>>
    /\ _rx_packets = 0
    /\ _last_seq = "None"
    /\ appended = <<>>
    /\ query = <<>>
    /\ reply = <<>>

LidarIdle ==
    /\ l_in = <<>>
    /\ l_glen = 0
    /\ l_pos = 0
    /\ l_buf = <<>>
    /\ l_out = <<>>
    /\ l_steps = <<>>

DiscIdle ==
    /\ d_found = <<>>
    /\ d_recv = <<>>
    /\ d_done = FALSE
    /\ d_result = <<>>

\* Connections (and consumer threads) one ImuService run starts, at most
MaxStart == 2

Starts == 1..MaxStart

SvcIdle ==
    /\ svc_stop = FALSE
    /\ _th = 0
    /\ svc_pc = "idle"
    /\ th_pc = [k \in Starts |-> "none"]
    /\ th_chunk = [k \in Starts |-> <<>>]
    /\ th_pkts = [k \in Starts |-> <<>>]
    /\ parser_buf = <<>>
    /\ net_conn = 0
    /\ net_nconn = 0
    /\ net_queue = <<>>
    /\ peer_last = [k \in Starts |-> 0]

ExtraIdle == LidarIdle /\ DiscIdle /\ SvcIdle

ImuIdle ==
    /\ pkt = <<>>
    /\ cut = 0
    /\ p_buf = <<>>
    /\ p_out = <<>>
    /\ p_fed = 0
    /\ w_buf = <<>>
    /\ w_out = <<>>
    /\ w_fed = 0

None == 0
GUI == 0
Sockets == 1..MaxConn
Threads == {GUI} \cup Sockets

\* Whether the receive thread of socket k is running (started, not returned).
Alive(k) == pc[k] \notin {"none", "done"}

\* The statements of disconnect().
DiscPcs == {"d_stop", "d_read", "d_clear", "d_close", "d_empty", "d_get"}

\* Whether the program holds a reference to socket j: self.sock, a local s
\* of a running connect/send/disconnect, or the argument of the running
\* receive thread.
Referenced(j) ==
    \/ sock = j
    \/ cs = j
    \/ ss = j
    \/ \E t \in Threads : ds[t] = j
    \/ Alive(j)

\* CPython closes a socket object when its last reference goes away (the
\* socket finalizer); o is the set of open sockets the step leaves.
Collect(o) == {j \in o : Referenced(j)'}

\* A return of a NetClient call to the caller: the call, its value, and for
\* send() the sendall() calls it made and whether one raised OSError.
NoReturn == [call |-> "-", value |-> "-", sendalls |-> 0, write_error |-> FALSE]
Return(c, v) == [call |-> c, value |-> v, sendalls |-> 0, write_error |-> FALSE]
ReturnSend(v, n, e) == [call |-> "send", value |-> v, sendalls |-> n, write_error |-> e]

NetInit ==
    /\ sock = None
    /\ open = {}
    /\ _stop = FALSE
    /\ rx_queue = <<>>
    /\ _rx_thread = None
    /\ status = ""
    /\ returned = NoReturn
    /\ pc = [t \in Threads |-> IF t = GUI THEN "idle" ELSE "none"]
    /\ ret = [t \in Threads |-> "-"]
    /\ ds = [t \in Threads |-> None]
    /\ cs = None
    /\ ss = None
    /\ tries = 0
    /\ write_error = FALSE
    /\ put = ""
    /\ nconn = 0
    /\ ndisc = 0
    /\ raised = FALSE

Goto(t, l) == pc' = [pc EXCEPT ![t] = l]

\* ---- disconnect(), run by thread t (the caller or a receive thread)

\* self._stop.set()
DiscStop(t) ==
    /\ pc[t] = "d_stop"
    /\ _stop' = TRUE
    /\ Goto(t, "d_read")
    /\ status' = ""
    /\ returned' = NoReturn
    /\ put' = ""
    /\ UNCHANGED <<sock, open, rx_queue, _rx_thread, ret, ds, cs, ss, tries,
                   write_error, nconn, ndisc, raised, nonNet>>

\* s = self.sock
DiscRead(t) ==
    /\ pc[t] = "d_read"
    /\ ds' = [ds EXCEPT ![t] = sock]
    /\ Goto(t, "d_clear")
    /\ status' = ""
    /\ returned' = NoReturn
    /\ put' = ""
    /\ UNCHANGED <<sock, open, _stop, rx_queue, _rx_thread, ret, cs, ss, tries,
                   write_error, nconn, ndisc, raised, nonNet>>

\* (mutant: s = self.sock without self.sock = None)
DiscClearKeep(t) ==
    /\ pc[t] = "d_clear"
    /\ Goto(t, "d_close")
    /\ status' = ""
    /\ returned' = NoReturn
    /\ put' = ""
    /\ UNCHANGED <<sock, open, _stop, rx_queue, _rx_thread, ret, ds, cs, ss, tries,
                   write_error, nconn, ndisc, raised, nonNet>>

\* self.sock = None
DiscClear(t) ==
    /\ pc[t] = "d_clear"
    /\ sock' = None
    /\ Goto(t, "d_close")
    /\ status' = ""
    /\ returned' = NoReturn
    /\ put' = ""
    /\ UNCHANGED <<_stop, rx_queue, _rx_thread, ret, ds, cs, ss, tries, write_error,
                   nconn, ndisc, raised, nonNet>>
    /\ open' = Collect(open)

\* try: if s: s.close()  except: pass
DiscClose(t) ==
    /\ pc[t] = "d_close"
    /\ open' = IF ds[t] # None THEN open \ {ds[t]} ELSE open
    /\ Goto(t, "d_empty")
    /\ status' = ""
    /\ returned' = NoReturn
    /\ put' = ""
    /\ UNCHANGED <<sock, _stop, rx_queue, _rx_thread, ret, ds, cs, ss, tries,
                   write_error, nconn, ndisc, raised, nonNet>>

\* self.status_cb("[NET] disconnected") and the return of disconnect() to
\* what called it: the caller of disconnect(), connect() at its try, send()
\* at its return False, _rx_loop at its end.
DiscReturn(t) ==
    /\ status' = "disconnected"
    /\ ds' = [ds EXCEPT ![t] = None]
    /\ ret' = [ret EXCEPT ![t] = "-"]
    /\ CASE ret[t] = "disconnect" ->
              /\ Goto(t, "idle")
              /\ returned' = Return("disconnect", "None")
              /\ put' = ""
              /\ ndisc' = IF ndisc < 2 THEN ndisc + 1 ELSE ndisc
              /\ UNCHANGED <<ss, tries, write_error>>
         [] ret[t] = "connect" ->
              /\ Goto(t, "c_open")
              /\ returned' = NoReturn
              /\ put' = ""
              /\ UNCHANGED <<ss, tries, write_error, ndisc>>
         [] ret[t] = "send" ->
              /\ Goto(t, "idle")
              /\ returned' = ReturnSend("False", tries, write_error)
              /\ put' = ""
              /\ ss' = None
              /\ tries' = 0
              /\ write_error' = FALSE
              /\ ndisc' = ndisc
         [] ret[t] = "_rx_loop" ->
              /\ Goto(t, "done")
              /\ returned' = NoReturn
              /\ put' = ""
              /\ UNCHANGED <<ss, tries, write_error, ndisc>>
    /\ UNCHANGED <<sock, _stop, _rx_thread, cs, nconn, raised, nonNet>>
    /\ open' = Collect(open)

\* while not self.rx_queue.empty():
DiscEmpty(t) ==
    /\ pc[t] = "d_empty"
    /\ IF rx_queue = <<>>
         THEN DiscReturn(t)
         ELSE /\ Goto(t, "d_get")
              /\ status' = ""
              /\ returned' = NoReturn
              /\ put' = ""
              /\ UNCHANGED <<sock, open, _stop, _rx_thread, ret, ds, cs, ss, tries,
                             write_error, nconn, ndisc, raised, nonNet>>
    /\ rx_queue' = rx_queue

\* try: self.rx_queue.get_nowait()  except: break
\* (the consumer may have emptied the queue since the test)
DiscGet(t) ==
    /\ pc[t] = "d_get"
    /\ IF rx_queue # <<>>
         THEN /\ rx_queue' = Tail(rx_queue)
              /\ Goto(t, "d_empty")
              /\ status' = ""
              /\ returned' = NoReturn
              /\ put' = ""
              /\ UNCHANGED <<sock, open, _stop, _rx_thread, ret, ds, cs, ss, tries,
                             write_error, nconn, ndisc, raised, nonNet>>
         ELSE /\ rx_queue' = rx_queue
              /\ DiscReturn(t)

Disconnect(t) ==
    \/ DiscStop(t)
    \/ DiscRead(t)
    \/ DiscClear(t)
    \/ DiscClose(t)
    \/ DiscEmpty(t)
    \/ DiscGet(t)

\* ---- the caller: disconnect()

\* the call, and self._stop.set()
CallDisconnect ==
    /\ pc[GUI] = "idle"
    /\ _stop' = TRUE
    /\ Goto(GUI, "d_read")
    /\ ret' = [ret EXCEPT ![GUI] = "disconnect"]
    /\ status' = ""
    /\ returned' = NoReturn
    /\ put' = ""
    /\ UNCHANGED <<sock, open, rx_queue, _rx_thread, ds, cs, ss, tries, write_error,
                   nconn, ndisc, raised, nonNet>>

\* ---- the caller: connect(ip, port, timeout)

\* (mutant: connect() without its self.disconnect())
CallConnectNoDisc ==
    /\ pc[GUI] = "idle"
    /\ Goto(GUI, "c_open")
    /\ ndisc' = 0
    /\ status' = ""
    /\ returned' = NoReturn
    /\ put' = ""
    /\ UNCHANGED <<sock, open, _stop, rx_queue, _rx_thread, ret, ds, cs, ss, tries,
                   write_error, nconn, raised, nonNet>>

\* the call, and self.disconnect() at its self._stop.set()
CallConnect ==
    /\ pc[GUI] = "idle"
    /\ _stop' = TRUE
    /\ Goto(GUI, "d_read")
    /\ ret' = [ret EXCEPT ![GUI] = "connect"]
    /\ ndisc' = 0
    /\ status' = ""
    /\ returned' = NoReturn
    /\ put' = ""
    /\ UNCHANGED <<sock, open, rx_queue, _rx_thread, ds, cs, ss, tries, write_error,
                   nconn, raised, nonNet>>

\* s = socket.socket(...); s.settimeout(timeout); s.connect((ip, port))
\* except OSError: self.status_cb("[NET] connect failed: ..."); return False
ConnectOpen ==
    /\ pc[GUI] = "c_open"
    /\ \/ /\ nconn < MaxConn
          /\ nconn' = nconn + 1
          /\ cs' = nconn + 1
          /\ open' = open \cup {nconn + 1}
          /\ Goto(GUI, "c_set")
          /\ status' = ""
          /\ returned' = NoReturn
          /\ put' = ""
       \/ /\ status' = "connect failed"
          /\ returned' = Return("connect", "False")
          /\ put' = ""
          /\ Goto(GUI, "idle")
          /\ UNCHANGED <<nconn, cs, open>>
    /\ UNCHANGED <<sock, _stop, rx_queue, _rx_thread, ret, ds, ss, tries,
                   write_error, ndisc, raised, nonNet>>

\* self.sock = s
ConnectSet ==
    /\ pc[GUI] = "c_set"
    /\ sock' = cs
    /\ Goto(GUI, "c_clear")
    /\ status' = ""
    /\ returned' = NoReturn
    /\ put' = ""
    /\ UNCHANGED <<_stop, rx_queue, _rx_thread, ret, ds, cs, ss, tries, write_error,
                   nconn, ndisc, raised, nonNet>>
    /\ open' = Collect(open)

\* self._stop.clear()
ConnectClear ==
    /\ pc[GUI] = "c_clear"
    /\ _stop' = FALSE
    /\ Goto(GUI, "c_start")
    /\ status' = ""
    /\ returned' = NoReturn
    /\ put' = ""
    /\ UNCHANGED <<sock, open, rx_queue, _rx_thread, ret, ds, cs, ss, tries,
                   write_error, nconn, ndisc, raised, nonNet>>

\* self._rx_thread = threading.Thread(target=self._rx_loop, args=(s,));
\* self._rx_thread.start(); self.status_cb("[NET] connected to ..."); return True
ConnectStart ==
    /\ pc[GUI] = "c_start"
    /\ _rx_thread' = cs
    /\ pc' = [pc EXCEPT ![GUI] = "idle", ![cs] = "r_loop"]
    /\ status' = "connected"
    /\ returned' = Return("connect", "True")
    /\ put' = ""
    /\ cs' = None
    /\ UNCHANGED <<sock, _stop, rx_queue, ret, ds, ss, tries, write_error, nconn,
                   ndisc, raised, nonNet>>
    /\ open' = Collect(open)

\* ---- the caller: send(data)

\* (mutant: send() reports the missing socket through status_cb)
CallSendNoisy ==
    /\ pc[GUI] = "idle"
    /\ ndisc' = 0
    /\ UNCHANGED <<tries, write_error>>
    /\ IF sock = None
         THEN /\ returned' = ReturnSend("False", 0, FALSE)
              /\ status' = "send error"
              /\ UNCHANGED <<pc, ss>>
         ELSE /\ ss' = sock
              /\ Goto(GUI, "s_sendall")
              /\ returned' = NoReturn
              /\ status' = ""
    /\ put' = ""
    /\ UNCHANGED <<sock, open, _stop, rx_queue, _rx_thread, ret, ds, cs, nconn, raised,
                   nonNet>>

\* the call; s = self.sock; if not s: return False
CallSend ==
    /\ pc[GUI] = "idle"
    /\ ndisc' = 0
    /\ UNCHANGED <<tries, write_error>>
    /\ IF sock = None
         THEN /\ returned' = ReturnSend("False", 0, FALSE)
              /\ UNCHANGED <<pc, ss>>
         ELSE /\ ss' = sock
              /\ Goto(GUI, "s_sendall")
              /\ returned' = NoReturn
    /\ status' = ""
    /\ put' = ""
    /\ UNCHANGED <<sock, open, _stop, rx_queue, _rx_thread, ret, ds, cs, nconn, raised,
                   nonNet>>

\* (mutant: the except branch returns False without self.disconnect())
SendAllNoDisc ==
    /\ pc[GUI] = "s_sendall"
    /\ UNCHANGED <<sock, _stop, rx_queue, _rx_thread, ret, ds, cs, tries, write_error,
                   nconn, ndisc, raised, nonNet>>
    /\ ss' = None
    /\ Goto(GUI, "idle")
    /\ put' = ""
    /\ \/ /\ ss \in open
          /\ returned' = ReturnSend("True", tries + 1, FALSE)
          /\ status' = ""
       \/ /\ returned' = ReturnSend("False", tries + 1, TRUE)
          /\ status' = "send error"
    /\ open' = Collect(open)

\* s.sendall(data); return True
\* except OSError (always, once s is closed):
\*     self.status_cb("[NET] send error: ..."); self.disconnect()
SendAll ==
    /\ pc[GUI] = "s_sendall"
    /\ UNCHANGED <<sock, _stop, rx_queue, _rx_thread, ds, cs, nconn, ndisc, raised,
                   nonNet>>
    /\ \/ /\ ss \in open
          /\ returned' = ReturnSend("True", tries + 1, FALSE)
          /\ UNCHANGED <<tries, write_error>>
          /\ put' = ""
          /\ ss' = None
          /\ Goto(GUI, "idle")
          /\ status' = ""
          /\ ret' = ret
          /\ open' = Collect(open)
       \/ /\ tries' = tries + 1
          /\ write_error' = TRUE
          /\ status' = "send error"
          /\ Goto(GUI, "d_stop")
          /\ ret' = [ret EXCEPT ![GUI] = "send"]
          /\ returned' = NoReturn
          /\ put' = ""
          /\ UNCHANGED <<ss, open>>

\* ---- _rx_loop(s), the receive thread k of socket k

\* while not self._stop.is_set():   (else: finally: self.disconnect())
RxLoop(k) ==
    /\ pc[k] = "r_loop"
    /\ IF _stop
         THEN Goto(k, "d_stop") /\ ret' = [ret EXCEPT ![k] = "_rx_loop"]
         ELSE Goto(k, "r_recv") /\ ret' = ret
    /\ status' = ""
    /\ returned' = NoReturn
    /\ put' = ""
    /\ UNCHANGED <<sock, open, _stop, rx_queue, _rx_thread, ds, cs, ss, tries,
                   write_error, nconn, ndisc, raised, nonNet>>

\* data = s.recv(4096): a chunk, b"" (the peer closed), or OSError (a read
\* error; always, once s is closed)
RxRecv(k) ==
    /\ pc[k] = "r_recv"
    /\ \/ k \in open /\ Goto(k, "r_put")
       \/ k \in open /\ Goto(k, "r_closed")
       \/ Goto(k, "r_error")
    /\ status' = ""
    /\ returned' = NoReturn
    /\ put' = ""
    /\ UNCHANGED <<sock, open, _stop, rx_queue, _rx_thread, ret, ds, cs, ss, tries,
                   write_error, nconn, ndisc, raised, nonNet>>

\* (mutant: a queue without maxsize)
RxPutGrow(k) ==
    /\ pc[k] = "r_put"
    /\ rx_queue' = Append(rx_queue, k)
    /\ put' = "queued"
    /\ Goto(k, "r_loop")
    /\ status' = ""
    /\ returned' = NoReturn
    /\ UNCHANGED <<sock, open, _stop, _rx_thread, ret, ds, cs, ss, tries, write_error,
                   nconn, ndisc, raised, nonNet>>

\* try: self.rx_queue.put_nowait(data)  except queue.Full: pass
RxPut(k) ==
    /\ pc[k] = "r_put"
    /\ IF Len(rx_queue) < RxQueueMax
         THEN rx_queue' = Append(rx_queue, k) /\ put' = "queued"
         ELSE rx_queue' = rx_queue /\ put' = "Full"
    /\ Goto(k, "r_loop")
    /\ status' = ""
    /\ returned' = NoReturn
    /\ UNCHANGED <<sock, open, _stop, _rx_thread, ret, ds, cs, ss, tries,
                   write_error, nconn, ndisc, raised, nonNet>>

\* (mutant: the loop ends without the finally: self.disconnect())
RxClosedNoDisc(k) ==
    /\ pc[k] = "r_closed"
    /\ status' = "server closed"
    /\ Goto(k, "done")
    /\ returned' = NoReturn
    /\ put' = ""
    /\ UNCHANGED <<sock, _stop, rx_queue, _rx_thread, ret, ds, cs, ss, tries,
                   write_error, nconn, ndisc, raised, nonNet>>
    /\ open' = Collect(open)

\* if not data: self.status_cb("[NET] server closed"); break
\* finally: self.disconnect(), at its self._stop.set()
RxClosed(k) ==
    /\ pc[k] = "r_closed"
    /\ status' = "server closed"
    /\ _stop' = TRUE
    /\ Goto(k, "d_read")
    /\ ret' = [ret EXCEPT ![k] = "_rx_loop"]
    /\ returned' = NoReturn
    /\ put' = ""
    /\ UNCHANGED <<sock, open, rx_queue, _rx_thread, ds, cs, ss, tries, write_error,
                   nconn, ndisc, raised, nonNet>>

\* except OSError: self.status_cb("[NET] recv error: ...")
\* finally: self.disconnect(), at its self._stop.set()
RxError(k) ==
    /\ pc[k] = "r_error"
    /\ status' = "recv error"
    /\ _stop' = TRUE
    /\ Goto(k, "d_read")
    /\ ret' = [ret EXCEPT ![k] = "_rx_loop"]
    /\ returned' = NoReturn
    /\ put' = ""
    /\ UNCHANGED <<sock, open, rx_queue, _rx_thread, ds, cs, ss, tries, write_error,
                   nconn, ndisc, raised, nonNet>>

\* ---- the consumer of rx_queue: chunk = rx_queue.get_nowait()
ConsumerGet ==
    /\ rx_queue # <<>>
    /\ rx_queue' = Tail(rx_queue)
    /\ status' = ""
    /\ returned' = NoReturn
    /\ put' = ""
    /\ UNCHANGED <<sock, open, _stop, _rx_thread, pc, ret, ds, cs, ss, tries,
                   write_error, nconn, ndisc, raised, nonNet>>

\* The steps of a receive thread other than its blocking read.
RxRun(k) ==
    \/ RxLoop(k)
    \/ RxPut(k)
    \/ RxClosed(k)
    \/ RxError(k)
    \/ Disconnect(k)

\* The steps of a NetClient call the caller has entered.
CallerRun ==
    \/ Disconnect(GUI)
    \/ ConnectOpen
    \/ ConnectSet
    \/ ConnectClear
    \/ ConnectStart
    \/ SendAll

Init == NetInit /\ RingIdle /\ ImuIdle /\ ExtraIdle

Next ==
    \/ CallDisconnect
    \/ CallConnect
    \/ CallSend
    \/ CallerRun
    \/ \E k \in Sockets : RxRun(k)
    \/ \E k \in Sockets : RxRecv(k)
    \/ ConsumerGet

Spec == Init /\ [][Next]_vars

\* A thread that can run does run (a blocking read may never return), and
\* the drain loop of disconnect() is not outrun by the network forever.
FairSpec ==
    /\ Spec
    /\ WF_vars(CallerRun)
    /\ \A k \in Sockets : WF_vars(RxRun(k))
    /\ \A t \in Threads : SF_vars(DiscEmpty(t) /\ rx_queue = <<>>)

\* ============================================================== NetClient claims

\* The connection is Disconnected: no socket held, the stop signal set.
Disconnected == sock = None /\ _stop

\* Whether the caller is inside connect().
InConnect ==
    \/ pc[GUI] \in {"c_open", "c_set", "c_clear", "c_start"}
    \/ pc[GUI] \in DiscPcs /\ ret[GUI] = "connect"

\* At most one receive thread is alive.
OneThread == Cardinality({k \in Sockets : Alive(k)}) <= 1

\* At most one socket is open.
OneSocket == Cardinality(open) <= 1

\* C1: in every reachable state at most one receive thread is alive and at
\* most one socket is open.
C1_OneThreadOneSocket ==
    /\ Cardinality({k \in Sockets : Alive(k)}) <= 1
    /\ Cardinality(open) <= 1

\* C2: whenever disconnect() returns to the caller (so also when it is the
\* second call in a row, and when no socket was ever opened) no exception
\* has escaped and the connection is Disconnected.
C2_DisconnectLeavesDisconnected ==
    returned.call = "disconnect" => (Disconnected /\ ~raised)

\* The second of two disconnect() calls in a row has just returned.
C2_Witness ==
    /\ returned.call = "disconnect"
    /\ ndisc = 2
    /\ Disconnected

\* C3: the step of connect() that fails to open the socket emits the
\* failure notification, returns False, starts no receive thread and leaves
\* no socket held.
C3_ConnectFailure ==
    [][(pc[GUI] = "c_open" /\ pc'[GUI] # "c_open" /\ nconn' = nconn)
        => /\ status' = "connect failed"
           /\ returned' = Return("connect", "False")
           /\ pc'[GUI] = "idle"
           /\ Disconnected'
           /\ _rx_thread' = _rx_thread
           /\ \A k \in Sockets : Alive(k)' => Alive(k)]_vars

\* connect() has just failed on a client whose earlier connection's receive
\* thread is still running.
C3_Witness ==
    /\ returned = Return("connect", "False")
    /\ status = "connect failed"
    /\ nconn > 0
    /\ \E k \in Sockets : Alive(k)
    /\ Disconnected

\* C4: send() called while self.sock is None returns False at once and
\* changes nothing: no notification, the queue, the stop signal, the socket
\* reference and the sockets as they were.
C4_SendNoSocket ==
    [][(pc[GUI] = "idle" /\ sock = None
            /\ (returned'.call = "send" \/ pc'[GUI] = "s_sendall"))
        => /\ returned' = ReturnSend("False", 0, FALSE)
           /\ pc'[GUI] = "idle"
           /\ status' = ""
           /\ UNCHANGED <<rx_queue, _stop, sock, open, _rx_thread>>]_vars

\* send() has just returned False for want of a socket, with chunks queued.
C4_Witness ==
    /\ returned = ReturnSend("False", 0, FALSE)
    /\ status = ""
    /\ sock = None
    /\ rx_queue # <<>>

\* C5: a send() whose sendall() raised OSError returns False after that one
\* sendall(), and the connection is Disconnected when it returns.
C5_SendErrorDisconnects ==
    (returned.call = "send" /\ returned.write_error)
        => /\ returned.value = "False"
           /\ returned.sendalls = 1
           /\ Disconnected

\* send() has just returned False after a write error.
C5_Witness ==
    /\ returned = ReturnSend("False", 1, TRUE)
    /\ Disconnected

\* C6: rx_queue never holds more than its bound, and a put_nowait on the
\* full queue drops the chunk: the queue is as it was and the receive thread
\* is back at the head of its loop.
C6_QueueBounded ==
    /\ [](Len(rx_queue) <= RxQueueMax)
    /\ [][\A k \in Sockets :
            (pc[k] = "r_put" /\ pc'[k] # "r_put" /\ Len(rx_queue) >= RxQueueMax)
                => /\ rx_queue' = rx_queue
                   /\ put' = "Full"
                   /\ pc'[k] = "r_loop"]_vars

\* A chunk has just been dropped on the full queue.
C6_Witness ==
    /\ put = "Full"
    /\ Len(rx_queue) = RxQueueMax
    /\ \E k \in Sockets : pc[k] = "r_loop"

\* C7: once the receive thread of the current socket has read b"" or got a
\* read error, then, unless the caller enters connect() again, the
\* connection becomes Disconnected with that socket closed and that thread
\* terminated.
C7_PeerCloseDisconnects ==
    \A k \in Sockets :
        (pc[k] \in {"r_closed", "r_error"} /\ sock = k)
            ~> \/ Disconnected /\ k \notin open /\ pc[k] = "done"
               \/ InConnect

\* The peer has closed the current, open socket and its receive thread has
\* read b"".
C7_Witness ==
    \E k \in Sockets :
        /\ pc[k] = "r_closed"
        /\ sock = k
        /\ k \in open
        /\ ~InConnect

\* ==================================================================== ImuService

\* buf_max of the model (the code's default is 5000 samples)
BufMax == 4

\* Samples a run appends in all
MaxAppend == 6

\* Samples one feed() hands to _loop at most
MaxBatch == 2

\* The seq values of the samples
Seqs == 5..8

\* A sample, as far as the ring and its reads look at it
Samples == [seq : Seqs]

\* The non-empty lists pkts that parser.feed(chunk) may return
Batches == UNION {[1..n -> Samples] : n \in 1..MaxBatch}

\* (mutant: a full ring drops its newest sample to make room)
DequeAppendNewest(d, x) ==
    IF Len(d) >= BufMax THEN Append(SubSeq(d, 1, Len(d) - 1), x) ELSE Append(d, x)

\* deque(maxlen=buf_max).append(x): a full deque discards its leftmost item
DequeAppend(d, x) ==
    IF Len(d) >= BufMax THEN Append(Tail(d), x) ELSE Append(d, x)

\* for p in pkts: self._buf.append(p)
RECURSIVE DequeExtend(_, _)
DequeExtend(d, pkts) ==
    IF pkts = <<>> THEN d ELSE DequeExtend(DequeAppend(d, Head(pkts)), Tail(pkts))

\* _loop, one pass that got samples from the parser:
\* with self._lock: for p in pkts: append p, _last_seq = p["seq"], _rx_packets += 1
LoopAppend(pkts) ==
    /\ Len(appended) + Len(pkts) <= MaxAppend
    /\ _buf' = DequeExtend(_buf, pkts)
    /\ _last_seq' = pkts[Len(pkts)].seq
    /\ _rx_packets' = _rx_packets + Len(pkts)
    /\ appended' = appended \o pkts
    /\ query' = <<>>
    /\ reply' = <<>>
    /\ UNCHANGED <<netVars, imuVars, extraVars>>

\* (mutant: the comparison is >= instead of >)
SinceInclusive(buf, X) ==
    IF buf = <<>> THEN <<>> ELSE SelectSeq(buf, LAMBDA p : p.seq >= X)

\* if not self._buf: return [];  [p for p in self._buf if p["seq"] > seq]
Since(buf, X) ==
    IF buf = <<>> THEN <<>> ELSE SelectSeq(buf, LAMBDA p : p.seq > X)

\* get_since_seq(X)
GetSinceSeq(X) ==
    /\ query' = <<"get_since_seq", X>>
    /\ reply' = Since(_buf, X)
    /\ UNCHANGED <<_buf, _rx_packets, _last_seq, appended, netVars, imuVars, extraVars>>

\* The most get_latest returns, in the model (the code's limit is 2000, below
\* its default buf_max of 5000)
LatestMax == 2

\* n = max(1, min(2000, int(n)))
ClampN(n) ==
    LET m == IF n < LatestMax THEN n ELSE LatestMax
    IN  IF m > 1 THEN m ELSE 1

\* (mutant: the slice is [:n], the oldest n)
LatestOldest(buf, n) == SubSeq(buf, 1, IF Len(buf) < n THEN Len(buf) ELSE n)

\* list(self._buf)[-n:] for n >= 1
Latest(buf, n) == SubSeq(buf, (IF Len(buf) < n THEN 0 ELSE Len(buf) - n) + 1, Len(buf))

\* get_latest(n)
GetLatest(n) ==
    /\ query' = <<"get_latest", n>>
    /\ reply' = Latest(_buf, ClampN(n))
    /\ UNCHANGED <<_buf, _rx_packets, _last_seq, appended, netVars, imuVars, extraVars>>

RingInit == NetInit /\ RingIdle /\ ImuIdle /\ ExtraIdle

RingNext ==
    \/ \E pkts \in Batches : LoopAppend(pkts)
    \/ \E X \in 4..9 : GetSinceSeq(X)
    \/ \E n \in 0..(BufMax + 1) : GetLatest(n)

SpecRing == RingInit /\ [][RingNext]_vars

\* ------------------------------------------------------------ ImuService claims

\* The last n items of a list (all of it when it has fewer)
Newest(h, n) == SubSeq(h, Len(h) - (IF Len(h) < n THEN Len(h) ELSE n) + 1, Len(h))

\* C8: the ring never holds more than buf_max samples, and once more than
\* buf_max samples have been appended it holds exactly the newest buf_max of
\* them, in the order they were appended.
C8_RingKeepsNewest ==
    /\ Len(_buf) <= BufMax
    /\ Len(appended) > BufMax => (Len(_buf) = BufMax /\ _buf = Newest(appended, BufMax))
    /\ Len(appended) <= BufMax => _buf = appended

\* buf_max + 2 samples have been appended, the two evicted ones differing from
\* the oldest one kept.
C8_Witness ==
    /\ Len(appended) = BufMax + 2
    /\ appended[1] # appended[3]
    /\ appended[2] # appended[3]
    /\ _buf = Newest(appended, BufMax)

\* The items of a list that an index set selects, in list order
RECURSIVE Pick(_, _, _)
Pick(buf, I, i) ==
    IF i > Len(buf) THEN <<>>
    ELSE (IF i \in I THEN <<buf[i]>> ELSE <<>>) \o Pick(buf, I, i + 1)

\* C9: get_since_seq(X) returns the samples of the ring whose seq is greater
\* than X, in ring order, and changes neither the ring nor its counters.
C9_GetSinceSeq ==
    [][(query' # <<>> /\ query'[1] = "get_since_seq")
        => /\ reply' = Pick(_buf, {i \in 1..Len(_buf) : _buf[i].seq > query'[2]}, 1)
           /\ UNCHANGED <<_buf, _rx_packets, _last_seq>>]_vars

\* The ring holds seqs 5, 6, 7, 8 and get_since_seq(6) has returned 7, 8.
C9_Witness ==
    /\ _buf = <<[seq |-> 5], [seq |-> 6], [seq |-> 7], [seq |-> 8]>>
    /\ query = <<"get_since_seq", 6>>
    /\ reply = <<[seq |-> 7], [seq |-> 8]>>
    /\ _rx_packets = 4
    /\ _last_seq = 8

\* =============================================================== ImuStreamParser

MAGIC == 42330

PKT_SIZE == 32

MAGIC_BYTES == <<90, 165>>

\* Payload bytes of the packets under test that vary
MaxVary == 3

\* The positions (1-based) of the bytes that vary, in the order they are taken:
\* the two bytes of roll, the last byte, then bytes of seq and t_ms
VarPos == <<13, 14, 32, 5, 31, 9, 6>>

\* The values a varying byte takes: 0x00, 0x5A, 0xA5, 0xFF
PayloadBytes == {0, 90, 165, 255}

\* A valid packet: magic 0xA55A little-endian, ver 1, typ 1, 28 more bytes
Packet(v) ==
    [i \in 1..PKT_SIZE |->
        IF i <= 2 THEN MAGIC_BYTES[i]
        ELSE IF i <= 4 THEN 1
        ELSE IF \E j \in 1..MaxVary : VarPos[j] = i
             THEN v[CHOOSE j \in 1..MaxVary : VarPos[j] = i]
        ELSE 0]

\* struct "<H" / "<I" / "<h" packing: byte k (0-based) of the value x
Byte(x, k) == (((x + 65536) % 65536) \div (IF k = 0 THEN 1 ELSE 256)) % 256

\* A valid packet packed from its fields: seq, t_ms (below 65536 here, the
\* two high bytes given apart) and the ten raw 16-bit values
FieldPacket(seq, hi, t_ms, vals) ==
    [i \in 1..PKT_SIZE |->
        IF i <= 2 THEN MAGIC_BYTES[i]
        ELSE IF i <= 4 THEN 1
        ELSE IF i <= 6 THEN Byte(seq, i - 5)
        ELSE IF i <= 8 THEN hi[i - 6]
        ELSE IF i <= 10 THEN Byte(t_ms, i - 9)
        ELSE IF i <= 12 THEN 0
        ELSE Byte(vals[(i - 11) \div 2], (i - 13) % 2)]

\* The raw values of the packets packed from fields
FieldVals ==
    {<<1234, -567, 12, -998, 1003, 15, -25, 0, 253, 7>>,
     <<32767, -32768, -1, 1, 0, 32767, -32768, -1, 1, 0>>}

FieldPackets ==
    {FieldPacket(seq, hi, t_ms, vals) :
        seq \in {42, 65535}, hi \in {<<0, 0>>, <<4, 1>>}, t_ms \in {1000}, vals \in FieldVals}

Packets == {Packet(v) : v \in [1..MaxVary -> PayloadBytes]} \cup FieldPackets

\* struct "<H", "<I", "<h" at 1-based offset i
U16(raw, i) == raw[i] + 256 * raw[i + 1]

U32(raw, i) == U16(raw, i) + 65536 * U16(raw, i + 2)

\* (mutant: the values are unpacked as unsigned, "<H")
I16Unsigned(raw, i) == U16(raw, i)

I16(raw, i) == IF U16(raw, i) >= 32768 THEN U16(raw, i) - 65536 ELSE U16(raw, i)

\* vals[j] / d, as the fraction
Scaled(raw, j, d) == <<I16(raw, 13 + 2 * j), d>>

\* the dict feed() appends for a packet
Sample(raw) ==
    [seq |-> U32(raw, 5), t_ms |-> U32(raw, 9),
     roll_deg |-> Scaled(raw, 0, 100), pitch_deg |-> Scaled(raw, 1, 100),
     ax_g |-> Scaled(raw, 2, 1000), ay_g |-> Scaled(raw, 3, 1000),
     az_g |-> Scaled(raw, 4, 1000),
     gx_dps |-> Scaled(raw, 5, 10), gy_dps |-> Scaled(raw, 6, 10),
     gz_dps |-> Scaled(raw, 7, 10), temp_c |-> Scaled(raw, 8, 10)]

\* self.buf.find(MAGIC_BYTES): 0-based index of the first match, or -1
Find(b) ==
    LET hits == {i \in 1..(Len(b) - 1) : b[i] = MAGIC_BYTES[1] /\ b[i + 1] = MAGIC_BYTES[2]}
    IN  IF hits = {} THEN -1
        ELSE (CHOOSE i \in hits : \A j \in hits : i <= j) - 1

\* (mutant: without the magic, the whole buffer is dropped)
KeepNone(b) == <<>>

\* (mutant: without the magic, the whole buffer is kept)
KeepAll(b) == b

\* if len(self.buf) > 1: self.buf = self.buf[-1:]
KeepLast(b) == IF Len(b) > 1 THEN SubSeq(b, Len(b), Len(b)) ELSE b

\* the while True loop of feed(): <<self.buf, out>> when it breaks
RECURSIVE FeedLoop(_, _)
FeedLoop(b, out) ==
    LET idx == Find(b)
        b1  == SubSeq(b, idx + 1, Len(b))
        raw == SubSeq(b1, 1, PKT_SIZE)
        b2  == SubSeq(b1, PKT_SIZE + 1, Len(b1))
    IN  IF idx < 0 THEN <<KeepLast(b), out>>
        ELSE IF Len(b1) < PKT_SIZE THEN <<b1, out>>
        ELSE IF U16(raw, 1) # MAGIC \/ raw[3] # 1 \/ raw[4] # 1 THEN FeedLoop(b2, out)
        ELSE FeedLoop(b2, Append(out, Sample(raw)))

\* feed(chunk) on a parser whose buffer is b
feed(b, chunk) == FeedLoop(b \o chunk, <<>>)

\* parser.feed(pkt[:cut]) on the fresh two-call parser
FeedFirst ==
    /\ p_fed = 0
    /\ p_buf' = feed(p_buf, SubSeq(pkt, 1, cut))[1]
    /\ p_out' = p_out \o feed(p_buf, SubSeq(pkt, 1, cut))[2]
    /\ p_fed' = 1
    /\ UNCHANGED <<pkt, cut, w_buf, w_out, w_fed, netVars, ringVars, extraVars>>

\* parser.feed(pkt[cut:]) on the two-call parser
FeedSecond ==
    /\ p_fed = 1
    /\ p_buf' = feed(p_buf, SubSeq(pkt, cut + 1, PKT_SIZE))[1]
    /\ p_out' = p_out \o feed(p_buf, SubSeq(pkt, cut + 1, PKT_SIZE))[2]
    /\ p_fed' = 2
    /\ UNCHANGED <<pkt, cut, w_buf, w_out, w_fed, netVars, ringVars, extraVars>>

\* parser.feed(pkt) on the fresh one-call parser
FeedWhole ==
    /\ w_fed = 0
    /\ w_buf' = feed(w_buf, pkt)[1]
    /\ w_out' = w_out \o feed(w_buf, pkt)[2]
    /\ w_fed' = 1
    /\ UNCHANGED <<pkt, cut, p_buf, p_out, p_fed, netVars, ringVars, extraVars>>

\* two parsers after ImuStreamParser(), a packet and a split offset
SplitInit ==
    /\ NetInit
    /\ RingIdle
    /\ ExtraIdle
    /\ pkt \in Packets
    /\ cut \in 0..PKT_SIZE
    /\ p_buf = <<>>
    /\ p_out = <<>>
    /\ p_fed = 0
    /\ w_buf = <<>>
    /\ w_out = <<>>
    /\ w_fed = 0

SplitNext == FeedFirst \/ FeedSecond \/ FeedWhole

SpecSplit == SplitInit /\ [][SplitNext]_vars

\* -------------------------------------------------------- ImuStreamParser claims

\* C10: a valid packet fed in two calls, split at any offset 0..32, has
\* yielded over the two calls exactly the one sample that feeding it in one
\* call yields.
C10_SplitFeed ==
    (p_fed = 2 /\ w_fed = 1)
        => /\ Len(w_out) = 1
           /\ p_out = w_out

\* A packet split after its first byte, with the magic bytes in its payload as
\* well, has been fed both ways.
C10_Witness ==
    /\ p_fed = 2
    /\ w_fed = 1
    /\ cut = 1
    /\ pkt[13] = 90
    /\ pkt[14] = 165
    /\ Len(p_out) = 1
    /\ p_out[1].roll_deg = <<-23206, 100>>

\* =============================================================== RPLidarA1Parser

\* Leading garbage bytes of a stream under test, at most
MaxGarbage == 3

\* The defaults of RPLidarA1Parser.__init__
min_q == 10

dist_min == 100

dist_max == 8000

\* The values a garbage byte takes: 0x00, 0x01, 0x02, 0x29, 0xFF
GarbageBytes == {0, 1, 2, 41, 255}

\* b0 of the nodes under test: quality 10 with S = 1, quality 10 with S = 0,
\* quality 1 with S = 0, and S = S_inv = 1
NodeB0 == {41, 42, 6, 3}

\* b1: angle low bits with the check bit 1, and with the check bit 0
NodeB1 == {1, 0}

\* b3, b4: the distance in quarter millimetres, low and high byte
NodeB3 == {144, 0}

NodeB4 == {1, 0, 255}

\* The 5-byte windows that end a stream under test
Nodes == {<<b0, b1, 0, b3, b4>> : b0 \in NodeB0, b1 \in NodeB1, b3 \in NodeB3, b4 \in NodeB4}

\* The leading garbage of a stream under test
Garbage == UNION {[1..n -> GarbageBytes] : n \in 0..MaxGarbage}

\* _is_valid_node(n): S xor S_inv is 1 and the check bit is 1
_is_valid_node(n) ==
    /\ (n[1] % 2) # ((n[1] \div 2) % 2)
    /\ n[2] % 2 = 1

\* _parse_node(n); angle_deg and dist_mm as fractions
_parse_node(n) ==
    [start_flag |-> n[1] % 2,
     quality    |-> n[1] \div 4,
     angle_deg  |-> <<(n[3] * 256 + n[2]) \div 2, 64>>,
     dist_mm    |-> <<n[5] * 256 + n[4], 4>>]

\* q >= self.min_q and self.dist_min <= dist <= self.dist_max
PassesFilter(f) ==
    /\ f.quality >= min_q
    /\ dist_min * f.dist_mm[2] <= f.dist_mm[1]
    /\ f.dist_mm[1] <= dist_max * f.dist_mm[2]

\* LidarPoint(dist * cos(a), dist * sin(a), q, start), a = math.radians(ang)
LidarPoint(f) ==
    [x_mm |-> <<"cos", f.dist_mm, f.angle_deg>>,
     y_mm |-> <<"sin", f.dist_mm, f.angle_deg>>,
     quality |-> f.quality,
     start_flag |-> f.start_flag]

\* (mutant: a valid node failing the filter is resynced over like an invalid one)
AdvanceFiltered(n) ==
    IF _is_valid_node(n) /\ PassesFilter(_parse_node(n)) THEN 5 ELSE 1

\* i += 5 for a valid node, i += 1 otherwise
Advance(n) == IF _is_valid_node(n) THEN 5 ELSE 1

\* the while loop of feed() from cursor i: the final i, out, and its passes
RECURSIVE LidarLoop(_, _, _, _)
LidarLoop(b, i, out, steps) ==
    IF Len(b) - i < 5 THEN [i |-> i, out |-> out, steps |-> steps]
    ELSE LET n    == SubSeq(b, i + 1, i + 5)
             emit == _is_valid_node(n) /\ PassesFilter(_parse_node(n))
         IN  LidarLoop(b, i + Advance(n),
                       IF emit THEN Append(out, LidarPoint(_parse_node(n))) ELSE out,
                       Append(steps, [at |-> i, adv |-> Advance(n), emitted |-> emit]))

\* the passes, with offsets counted in the stream instead of in the buffer
Shift(steps, base) ==
    [k \in 1..Len(steps) |-> [steps[k] EXCEPT !.at = steps[k].at + base]]

\* parser.feed(chunk) with the next n bytes of the stream
LidarFeed(n) ==
    LET chunk == SubSeq(l_in, l_pos + 1, l_pos + n)
        b     == l_buf \o chunk
        r     == LidarLoop(b, 0, <<>>, <<>>)
    IN  /\ l_pos + n <= Len(l_in)
        /\ l_pos' = l_pos + n
        /\ l_buf' = SubSeq(b, r.i + 1, Len(b))
        /\ l_out' = l_out \o r.out
        /\ l_steps' = l_steps \o Shift(r.steps, l_pos - Len(l_buf))
        /\ UNCHANGED <<l_in, l_glen, nonLidar>>

\* a parser after RPLidarA1Parser(), and a stream: garbage, then a 5-byte window
LidarInit ==
    /\ NetInit
    /\ RingIdle
    /\ ImuIdle
    /\ DiscIdle
    /\ SvcIdle
    /\ \E g \in Garbage, n \in Nodes : l_in = g \o n /\ l_glen = Len(g)
    /\ l_pos = 0
    /\ l_buf = <<>>
    /\ l_out = <<>>
    /\ l_steps = <<>>

LidarNext == \E n \in 1..(MaxGarbage + 5) : LidarFeed(n)

SpecLidar == LidarInit /\ [][LidarNext]_vars

\* ------------------------------------------------------- RPLidarA1Parser claims

\* The last 5 bytes of the stream under test
LastNode == SubSeq(l_in, l_glen + 1, l_glen + 5)

\* The stream has been fed whole and ends in a valid node that passes the filter.
FedValidNode ==
    /\ l_pos = Len(l_in)
    /\ _is_valid_node(LastNode)
    /\ PassesFilter(_parse_node(LastNode))

\* C11: once garbage followed by a valid node that passes the filter has been
\* fed, a pass of the loop has started exactly at the node, and the last point
\* emitted is the node's point.
C11_ResyncRecovers ==
    FedValidNode
        => /\ \E k \in 1..Len(l_steps) : l_steps[k].at = l_glen /\ l_steps[k].emitted
           /\ l_out # <<>>
           /\ l_out[Len(l_out)] = LidarPoint(_parse_node(LastNode))

\* The 5-byte window of the stream at an offset
Window(at) == SubSeq(l_in, at + 1, at + 5)

\* The validity rule on a window: S xor S_inv is 1 (bits 0 and 1 of byte 0)
\* and the check bit (bit 0 of byte 1) is 1
ValidRule(n) ==
    /\ (n[1] % 2) + ((n[1] \div 2) % 2) = 1
    /\ n[2] % 2 = 1

\* The filter on a window: quality (byte 0 above bit 1) at least 10, distance
\* (bytes 3 and 4, quarter millimetres) from 100 mm to 8000 mm
FilterRule(n) ==
    /\ n[1] \div 4 >= 10
    /\ 400 <= n[4] + 256 * n[5]
    /\ n[4] + 256 * n[5] <= 32000

\* C12: every pass of the loop is at a frame boundary left by the passes
\* before it; on a valid window it consumes 5 bytes and emits a point exactly
\* when the filter passes, on an invalid window it consumes 1 byte and emits
\* nothing; the points returned are one per emitting pass.
C12_NodeConsumption ==
    /\ \A k \in 1..Len(l_steps) :
        /\ l_steps[k].at = (IF k = 1 THEN 0 ELSE l_steps[k - 1].at + l_steps[k - 1].adv)
        /\ ValidRule(Window(l_steps[k].at))
            => /\ l_steps[k].adv = 5
               /\ l_steps[k].emitted = FilterRule(Window(l_steps[k].at))
        /\ ~ValidRule(Window(l_steps[k].at))
            => /\ l_steps[k].adv = 1
               /\ ~l_steps[k].emitted
    /\ Len(l_out) = Cardinality({k \in 1..Len(l_steps) : l_steps[k].emitted})
    /\ l_pos - Len(l_buf) =
         (IF l_steps = <<>> THEN 0
          ELSE l_steps[Len(l_steps)].at + l_steps[Len(l_steps)].adv)

\* Two garbage bytes and a node have been fed: two invalid windows were
\* resynced over byte by byte, then the node was consumed and emitted.
C12_Witness ==
    /\ l_pos = Len(l_in)
    /\ l_glen = 2
    /\ Len(l_steps) = 3
    /\ l_steps[1].adv = 1 /\ ~ValidRule(Window(0))
    /\ l_steps[2].adv = 1
    /\ l_steps[3].adv = 5 /\ l_steps[3].emitted
    /\ Len(l_out) = 1
    /\ l_buf = <<>>

\* A valid node failing the filter has been consumed whole without a point.
C12_FilteredWitness ==
    \E k \in 1..Len(l_steps) :
        /\ ValidRule(Window(l_steps[k].at))
        /\ ~FilterRule(Window(l_steps[k].at))
        /\ l_steps[k].adv = 5
        /\ ~l_steps[k].emitted

\* The unsigned 32-bit little-endian field of the packet at a 1-based offset
Field32(i) == pkt[i] + 256 * pkt[i + 1] + 65536 * pkt[i + 2] + 16777216 * pkt[i + 3]

\* The j-th (0-based) signed 16-bit little-endian value of the packet, in
\* wire order after the 12-byte header
Raw16(j) ==
    LET u == pkt[13 + 2 * j] + 256 * pkt[14 + 2 * j]
    IN  IF u < 32768 THEN u ELSE u - 65536

\* C13: feed of a whole valid packet on a fresh parser returns exactly one
\* sample; its seq and t_ms are the two unsigned 32-bit header fields and its
\* other fields are the signed 16-bit values in wire order over the scale
\* factors 100, 100, 1000, 1000, 1000, 10, 10, 10, 10.
C13_DecodeFields ==
    w_fed = 1
        => /\ Len(w_out) = 1
           /\ w_buf = <<>>
           /\ w_out[1] =
                [seq |-> Field32(5), t_ms |-> Field32(9),
                 roll_deg |-> <<Raw16(0), 100>>, pitch_deg |-> <<Raw16(1), 100>>,
                 ax_g |-> <<Raw16(2), 1000>>, ay_g |-> <<Raw16(3), 1000>>,
                 az_g |-> <<Raw16(4), 1000>>,
                 gx_dps |-> <<Raw16(5), 10>>, gy_dps |-> <<Raw16(6), 10>>,
                 gz_dps |-> <<Raw16(7), 10>>, temp_c |-> <<Raw16(8), 10>>]

\* The packet with seq 42, t_ms 1000 and known raw values has been fed whole
\* and decoded to seq 42, t_ms 1000 and each raw value over its scale.
C13_Witness ==
    /\ w_fed = 1
    /\ pkt = FieldPacket(42, <<0, 0>>, 1000,
                         <<1234, -567, 12, -998, 1003, 15, -25, 0, 253, 7>>)
    /\ Len(w_out) = 1
    /\ w_out[1].seq = 42
    /\ w_out[1].t_ms = 1000
    /\ w_out[1].roll_deg = <<1234, 100>>
    /\ w_out[1].pitch_deg = <<-567, 100>>
    /\ w_out[1].ax_g = <<12, 1000>>
    /\ w_out[1].ay_g = <<-998, 1000>>
    /\ w_out[1].az_g = <<1003, 1000>>
    /\ w_out[1].gx_dps = <<15, 10>>
    /\ w_out[1].gy_dps = <<-25, 10>>
    /\ w_out[1].gz_dps = <<0, 10>>
    /\ w_out[1].temp_c = <<253, 10>>

\* ========================================================== NetClient.discover_udp

\* Datagrams one scan receives, at most
MaxBeacons == 3

\* A datagram text is a list of tokens: "|" is the separator character, any
\* other token is a run of characters without a separator.
\* The decimal tokens and the int() of each; int() of any other run, and of
\* the empty string, raises ValueError.
IntTokens == [t \in {"9000", "9001", "9002", "9100", "9101"} |->
                CASE t = "9000" -> 9000 [] t = "9001" -> 9001 [] t = "9002" -> 9002
                  [] t = "9100" -> 9100 [] t = "9101" -> 9101]

\* The datagram texts under test
Beacons ==
    {<<"AGV_01", "|", "10.0.0.1", "|", "9000", "|", "9001">>,
     <<"AGV_01", "|", "10.0.0.1", "|", "9100", "|", "9101", "|", "9002">>,
     <<"AGV_02", "|", "10.0.0.2", "|", "9000", "|", "9001">>,
     <<"AGV_02", "|", "10.0.0.2", "|", "9100", "|", "9101", "|", "9002">>,
     <<"AGV_01", "|", "10.0.0.1", "|", "9000">>,
     <<"AGV_01", "|", "10.0.0.1", "|", "9000", "|", "9001", "|", "9002", "|", "9100">>,
     <<"AGV_01", "|", "10.0.0.1", "|", "90x0", "|", "9001">>,
     <<"AGV_02", "|", "10.0.0.2", "|", "9000", "|", "9.5", "|", "9002">>,
     <<"AGV_02", "|", "10.0.0.2", "|", "9000", "|", "9001", "|">>}

\* text.split("|"): the runs between separators, each a list of tokens
RECURSIVE Split(_, _)
Split(text, cur) ==
    IF text = <<>> THEN <<cur>>
    ELSE IF Head(text) = "|" THEN <<cur>> \o Split(Tail(text), <<>>)
    ELSE Split(Tail(text), Append(cur, Head(text)))

\* whether int(field) returns (FALSE: it raises ValueError)
IsInt(field) == Len(field) = 1 /\ field[1] \in DOMAIN IntTokens

\* AGVInfo(name=name, ip=ip, port_lidar=int(p_lidar), port_ctrl=int(p_ctrl),
\*         port_telem=int(p_telem) if p_telem is not None else None)
\* port_telem is <<>> for None and <<n>> for the integer n.
AGVInfo(parts) ==
    [name |-> parts[1], ip |-> parts[2],
     port_lidar |-> IntTokens[parts[3][1]],
     port_ctrl  |-> IntTokens[parts[4][1]],
     port_telem |-> IF Len(parts) = 5 THEN <<IntTokens[parts[5][1]]>> ELSE <<>>]

\* (mutant: an ip already in the dict keeps its first descriptor)
DictSetDefault(d, key, info) ==
    IF \E i \in 1..Len(d) : d[i].key = key
    THEN d
    ELSE Append(d, [key |-> key, value |-> info])

\* found[ip] = info: a key already there keeps its place and takes the new value
DictSet(d, key, info) ==
    IF \E i \in 1..Len(d) : d[i].key = key
    THEN [i \in 1..Len(d) |-> IF d[i].key = key THEN [key |-> key, value |-> info] ELSE d[i]]
    ELSE Append(d, [key |-> key, value |-> info])

\* one pass of the while loop that received a datagram:
\* split, the field-count test, and the try: found[ip] = AGVInfo(...)
DiscoverRecv(text) ==
    LET parts == Split(text, <<>>) IN
    /\ ~d_done
    /\ Len(d_recv) < MaxBeacons
    /\ d_recv' = Append(d_recv, text)
    /\ d_found' =
         IF Len(parts) \notin {4, 5} THEN d_found
         ELSE IF \A j \in 3..Len(parts) : IsInt(parts[j])
              THEN DictSet(d_found, parts[2], AGVInfo(parts))
              ELSE d_found
    /\ UNCHANGED <<d_done, d_result, nonDisc>>

\* the scan window ends (or recvfrom raises OSError): return list(found.values())
DiscoverReturn ==
    /\ ~d_done
    /\ d_done' = TRUE
    /\ d_result' = [i \in 1..Len(d_found) |-> d_found[i].value]
    /\ UNCHANGED <<d_found, d_recv, nonDisc>>

DiscoverInit == NetInit /\ RingIdle /\ ImuIdle /\ ExtraIdle

DiscoverNext ==
    \/ \E text \in Beacons : DiscoverRecv(text)
    \/ DiscoverReturn

SpecDiscover == DiscoverInit /\ [][DiscoverNext]_vars

\* --------------------------------------------------- NetClient.discover_udp claims

\* The fields of a text: what stands between its separators
Fields(text) == Split(text, <<>>)

\* A well-formed record: 4 or 5 fields, every port field a decimal integer
WellFormed(text) ==
    /\ Len(Fields(text)) \in {4, 5}
    /\ \A j \in 3..Len(Fields(text)) :
          Len(Fields(text)[j]) = 1 /\ Fields(text)[j][1] \in DOMAIN IntTokens

\* The IP field of a record
IpOf(text) == Fields(text)[2]

\* The descriptor a well-formed record stands for
Descriptor(text) ==
    [name |-> Fields(text)[1], ip |-> IpOf(text),
     port_lidar |-> IntTokens[Fields(text)[3][1]],
     port_ctrl  |-> IntTokens[Fields(text)[4][1]],
     port_telem |-> IF Len(Fields(text)) = 4 THEN <<>>
                    ELSE <<IntTokens[Fields(text)[5][1]]>>]

\* The positions in the scan of the well-formed records
Good == {i \in 1..Len(d_recv) : WellFormed(d_recv[i])}

\* The positions of the last well-formed record of each IP
LastGood == {i \in Good : \A j \in Good : IpOf(d_recv[j]) = IpOf(d_recv[i]) => j <= i}

\* C14: the list discover_udp returns holds exactly one descriptor per IP among
\* the well-formed records received, the one of the last well-formed record
\* of that IP (port_telem None for 4 fields, set for 5), and a record that is
\* not well-formed changes nothing collected.
C14_DiscoverDedup ==
    /\ [](d_done =>
            /\ Len(d_result) = Cardinality(LastGood)
            /\ \A i \in LastGood : \E k \in 1..Len(d_result) : d_result[k] = Descriptor(d_recv[i])
            /\ \A k \in 1..Len(d_result) : \E i \in LastGood : d_result[k] = Descriptor(d_recv[i]))
    /\ [][(Len(d_recv') = Len(d_recv) + 1 /\ ~WellFormed(d_recv'[Len(d_recv')]))
            => d_found' = d_found]_vars

\* A scan has returned one descriptor after a 4-field record, a 5-field record
\* and a record with a non-integer port, all of one IP.
C14_Witness ==
    /\ d_done
    /\ d_recv = << <<"AGV_01", "|", "10.0.0.1", "|", "9000", "|", "9001">>,
                   <<"AGV_01", "|", "10.0.0.1", "|", "9100", "|", "9101", "|", "9002">>,
                   <<"AGV_01", "|", "10.0.0.1", "|", "90x0", "|", "9001">> >>
    /\ d_result = << [name |-> <<"AGV_01">>, ip |-> <<"10.0.0.1">>, port_lidar |-> 9100,
                      port_ctrl |-> 9101, port_telem |-> <<9002>>] >>

\* ===================================================== ImuService.start, stop, _loop
\* self.net is taken as a NetClient that works as it is meant to: connect()
\* opens a connection or fails, disconnect() closes it and empties rx_queue,
\* and the chunks of an open connection arrive in rx_queue in order.

\* The seq values the peers send
SvcSeqs == {1, 2}

\* The packet a peer sends for a seq
SvcPacket(seq) ==
    FieldPacket(seq, <<0, 0>>, 1000, <<1234, -567, 12, -998, 1003, 15, -25, 0, 253, 7>>)

\* Chunks received and not yet appended or discarded
InFlight ==
    Len(net_queue) + Cardinality({k \in Starts : th_chunk[k] # <<>>})
        + Cardinality({k \in Starts : th_pkts[k] # <<>>})

\* Whether a consumer thread is running _loop
Looping(k) == th_pc[k] \notin {"none", "done"}

\* stop(): self._stop.set(); self.net.disconnect(); self._connected = False
SvcStop ==
    /\ svc_stop' = TRUE
    /\ net_conn' = 0
    /\ net_queue' = <<>>

\* the call of stop()
CallStop ==
    /\ svc_pc = "idle"
    /\ SvcStop
    /\ UNCHANGED <<_th, svc_pc, th_pc, th_chunk, th_pkts, parser_buf, net_nconn, peer_last,
                   ringVars, nonSvc>>

\* the call of start(), and its self.stop()
CallStart ==
    /\ svc_pc = "idle"
    /\ SvcStop
    /\ svc_pc' = "st_connect"
    /\ UNCHANGED <<_th, th_pc, th_chunk, th_pkts, parser_buf, net_nconn, peer_last,
                   ringVars, nonSvc>>

\* ok = self.net.connect(ip, port, timeout=timeout); if not ok: return False
StartConnect ==
    /\ svc_pc = "st_connect"
    /\ \/ /\ net_nconn < MaxStart
          /\ net_nconn' = net_nconn + 1
          /\ net_conn' = net_nconn + 1
          /\ svc_pc' = "st_clear"
       \/ /\ svc_pc' = "idle"
          /\ UNCHANGED <<net_nconn, net_conn>>
    /\ UNCHANGED <<svc_stop, _th, th_pc, th_chunk, th_pkts, parser_buf, net_queue, peer_last,
                   ringVars, nonSvc>>

\* self._stop.clear()
StartClear ==
    /\ svc_pc = "st_clear"
    /\ svc_stop' = FALSE
    /\ svc_pc' = "st_spawn"
    /\ UNCHANGED <<_th, th_pc, th_chunk, th_pkts, parser_buf, net_conn, net_nconn, net_queue,
                   peer_last, ringVars, nonSvc>>

\* self._th = threading.Thread(target=self._loop); self._th.start(); return True
\* Consumer thread k is the one the k-th successful start() starts.
StartSpawn ==
    /\ svc_pc = "st_spawn"
    /\ _th' = net_nconn
    /\ th_pc' = [th_pc EXCEPT ![net_nconn] = "l_check"]
    /\ svc_pc' = "idle"
    /\ UNCHANGED <<svc_stop, th_chunk, th_pkts, parser_buf, net_conn, net_nconn, net_queue,
                   peer_last, ringVars, nonSvc>>

\* the receive thread of the open connection queues a packet of its peer,
\* whose seq is not below the last one sent on that connection
PeerSend(seq) ==
    /\ net_conn # 0
    /\ seq >= peer_last[net_conn]
    /\ Len(net_queue) < RxQueueMax
    /\ Len(appended) + InFlight < MaxAppend
    /\ net_queue' = Append(net_queue, [conn |-> net_conn, data |-> SvcPacket(seq)])
    /\ peer_last' = [peer_last EXCEPT ![net_conn] = seq]
    /\ UNCHANGED <<svc_stop, _th, svc_pc, th_pc, th_chunk, th_pkts, parser_buf, net_conn,
                   net_nconn, ringVars, nonSvc>>

\* while not self._stop.is_set():
LoopCheck(k) ==
    /\ th_pc[k] = "l_check"
    /\ th_pc' = [th_pc EXCEPT ![k] = IF svc_stop THEN "done" ELSE "l_get"]
    /\ UNCHANGED <<svc_stop, _th, svc_pc, th_chunk, th_pkts, parser_buf, net_conn, net_nconn,
                   net_queue, peer_last, ringVars, nonSvc>>

\* try: chunk = self.net.rx_queue.get_nowait()  except: time.sleep(0.001); continue
LoopGet(k) ==
    /\ th_pc[k] = "l_get"
    /\ IF net_queue = <<>>
         THEN /\ th_pc' = [th_pc EXCEPT ![k] = "l_check"]
              /\ UNCHANGED <<th_chunk, net_queue>>
         ELSE /\ th_chunk' = [th_chunk EXCEPT ![k] = Head(net_queue).data]
              /\ net_queue' = Tail(net_queue)
              /\ th_pc' = [th_pc EXCEPT ![k] = "l_feed"]
    /\ UNCHANGED <<svc_stop, _th, svc_pc, th_pkts, parser_buf, net_conn, net_nconn,
                   peer_last, ringVars, nonSvc>>

\* pkts = self.parser.feed(chunk); if not pkts: continue
LoopFeed(k) ==
    LET r == feed(parser_buf, th_chunk[k]) IN
    /\ th_pc[k] = "l_feed"
    /\ parser_buf' = r[1]
    /\ th_pkts' = [th_pkts EXCEPT ![k] = r[2]]
    /\ th_chunk' = [th_chunk EXCEPT ![k] = <<>>]
    /\ th_pc' = [th_pc EXCEPT ![k] = IF r[2] = <<>> THEN "l_check" ELSE "l_append"]
    /\ UNCHANGED <<svc_stop, _th, svc_pc, net_conn, net_nconn, net_queue, peer_last,
                   ringVars, nonSvc>>

\* with self._lock: for p in pkts: self._buf.append(p); self._last_seq = p["seq"];
\*                  self._rx_packets += 1
LoopStore(k) ==
    /\ th_pc[k] = "l_append"
    /\ _buf' = DequeExtend(_buf, th_pkts[k])
    /\ _last_seq' = th_pkts[k][Len(th_pkts[k])].seq
    /\ _rx_packets' = _rx_packets + Len(th_pkts[k])
    /\ appended' = appended \o th_pkts[k]
    /\ th_pkts' = [th_pkts EXCEPT ![k] = <<>>]
    /\ th_pc' = [th_pc EXCEPT ![k] = "l_check"]
    /\ UNCHANGED <<svc_stop, _th, svc_pc, th_chunk, parser_buf, net_conn, net_nconn,
                   net_queue, peer_last, query, reply, nonSvc>>

SvcInit == NetInit /\ RingIdle /\ ImuIdle /\ ExtraIdle

SvcNext ==
    \/ CallStop
    \/ CallStart
    \/ StartConnect
    \/ StartClear
    \/ StartSpawn
    \/ \E seq \in SvcSeqs : PeerSend(seq)
    \/ \E k \in Starts : LoopCheck(k) \/ LoopGet(k) \/ LoopFeed(k) \/ LoopStore(k)

SpecSvc == SvcInit /\ [][SvcNext]_vars

\* -------------------------------------------- ImuService.start, stop, _loop claims

\* C15: at most one consumer thread is running _loop at any time.
C15_OneConsumer == Cardinality({k \in Starts : Looping(k)}) <= 1

\* Two consumer threads are inside _loop, each about to call feed on the one
\* parser.
C15_TwoFeeding == \E j, k \in Starts : j # k /\ th_pc[j] = "l_feed" /\ th_pc[k] = "l_feed"

\* ----------------------------------------------------- NetClient claims, continued

\* The caller's last call was a disconnect() that has returned, and it has
\* made no call since.
AfterDisconnect == ndisc >= 1 /\ pc[GUI] = "idle"

\* C16: once disconnect() has returned, and until the caller calls again, the
\* inbound queue is empty, so that no chunk of the closed connection can be
\* handed to a consumer.
C16_DrainedStaysEmpty == AfterDisconnect => rx_queue = <<>>

\* ======================================== ImuStreamParser.feed on a corrupt header

\* The version and type bytes of the corrupt headers under test
CorruptHeaders == {<<2, 1>>, <<1, 2>>, <<0, 0>>}

\* A stream that begins with the magic and a corrupt header, is filled with
\* the byte f up to offset k, and holds a valid packet from offset k on
CorruptStream(h, f, k, packet) ==
    [i \in 1..k |-> IF i <= 2 THEN MAGIC_BYTES[i] ELSE IF i <= 4 THEN h[i - 2] ELSE f]
        \o packet

\* a parser after ImuStreamParser(), and a stream whose valid packet begins
\* inside the 32 bytes of the corrupt frame
ResyncInit ==
    /\ NetInit
    /\ RingIdle
    /\ ExtraIdle
    /\ \E h \in CorruptHeaders, f \in {0, 255}, k \in 2..(PKT_SIZE - 1), packet \in FieldPackets :
          /\ pkt = CorruptStream(h, f, k, packet)
          /\ cut = k
    /\ p_buf = <<>>
    /\ p_out = <<>>
    /\ p_fed = 0
    /\ w_buf = <<>>
    /\ w_out = <<>>
    /\ w_fed = 0

ResyncNext == FeedWhole

SpecResync == ResyncInit /\ [][ResyncNext]_vars

\* ------------------------------------------------ corrupt-header claims

\* The stream has the magic at offset 0, at least 32 bytes, and a version or
\* type byte that does not match.
CorruptFrame ==
    /\ Len(pkt) >= 32
    /\ pkt[1] = 90 /\ pkt[2] = 165
    /\ pkt[3] # 1 \/ pkt[4] # 1

\* C17: after a stream with a corrupt frame at offset 0 has been fed, the
\* valid packet that begins inside that frame's 32 bytes has been decoded.
C17_CorruptHeaderResync ==
    (w_fed = 1 /\ CorruptFrame)
        => \E i \in 1..Len(w_out) : w_out[i] = Sample(SubSeq(pkt, cut + 1, cut + PKT_SIZE))

\* A step of the caller inside a disconnect() that it called right after a
\* disconnect() that had returned, that is on a Disconnected connection.
RepeatedDisconnectStep ==
    /\ ndisc >= 1
    /\ \/ pc[GUI] = "idle" /\ pc'[GUI] \in DiscPcs /\ ret'[GUI] = "disconnect"
       \/ pc[GUI] \in DiscPcs /\ ret[GUI] = "disconnect" /\ pc'[GUI] # pc[GUI]

\* C18: a disconnect() on a connection that is already Disconnected changes
\* no connection state and emits no status notification.
C18_DisconnectNoOp ==
    [][RepeatedDisconnectStep
        => /\ status' = ""
           /\ UNCHANGED <<sock, _stop, rx_queue, open, _rx_thread>>]_vars

\* ------------------------------------------------- ImuService claims, continued

\* get_latest has just been called.
LatestCalled == query # <<>> /\ query[1] = "get_latest"

\* C19 as stated: for every N from 1 to the ring capacity, get_latest(N)
\* returns the N newest samples of the ring in order, all of them when the
\* ring holds fewer.
C19_LatestUpToCapacity ==
    (LatestCalled /\ query[2] >= 1 /\ query[2] <= BufMax)
        => reply = Newest(_buf, query[2])

\* The N that get_latest serves: at least 1, at most its limit
Served(n) == IF n < 1 THEN 1 ELSE IF n > LatestMax THEN LatestMax ELSE n

\* C19 as amended: get_latest(N) returns the newest samples of the ring in
\* order, as many as N limited to the range from 1 to the limit of the read,
\* all of them when the ring holds fewer, and changes neither the ring nor its
\* counters.
C19_LatestClamped ==
    [][(query' # <<>> /\ query'[1] = "get_latest")
        => /\ reply' = Newest(_buf, Served(query'[2]))
           /\ UNCHANGED <<_buf, _rx_packets, _last_seq>>]_vars

\* get_latest has been asked for more than its limit on a ring that holds
\* more, and has returned the newest samples up to the limit.
C19_Witness ==
    /\ LatestCalled
    /\ query[2] = LatestMax + 1
    /\ Len(_buf) = BufMax
    /\ Len(reply) = LatestMax
    /\ reply[Len(reply)] = _buf[Len(_buf)]
    /\ _buf[1] # _buf[Len(_buf)]
    /\ _buf[1] # _buf[Len(_buf) - LatestMax + 1]

\* --------------------------------- ImuService.start, stop, _loop claims, continued

\* The seq values of the ring do not decrease in buffer order.
RingMonotonic == \A i, j \in 1..Len(_buf) : i <= j => _buf[i].seq <= _buf[j].seq

\* C20: with every peer sending non-decreasing seq on its connection (PeerSend
\* sends nothing else), the seq values held by the ring never decrease in
\* buffer order.
C20_SeqMonotonic == RingMonotonic

\* The same with all the samples of the ring from one connection: the peer of
\* the first connection has sent nothing.
C20_OneStreamMonotonic == peer_last[1] = 0 => RingMonotonic

\* A step of the receive thread k while its socket is closed and self.sock is
\* another socket, the current one.
StaleThreadStep(k) ==
    /\ pc'[k] # pc[k]
    /\ sock # None
    /\ sock # k
    /\ k \notin open

\* C21: a step of the receive thread of an earlier, already closed socket
\* neither clears self.sock, nor closes the current socket, nor sets the stop
\* signal of the current connection.
C21_StaleThreadHarmless ==
    [][\A k \in Sockets :
        StaleThreadStep(k)
            => /\ sock' = sock
               /\ sock \in open => sock \in open'
               /\ ~_stop => ~_stop']_vars

\* ================================== both parsers' feed on streams cut anywhere

\* Bytes before and after the frame of an ImuStreamParser stream
MaxNoise == 2

\* The values of those bytes: 0x00, and the two bytes of the magic
NoiseBytes == {0, 90, 165}

Noise == UNION {[1..n -> NoiseBytes] : n \in 0..MaxNoise}

\* The frames of the streams: none, a valid packet, packets with a corrupt header
Frames ==
    {<<>>, FieldPacket(42, <<0, 0>>, 1000, <<1234, -567, 12, -998, 1003, 15, -25, 0, 253, 7>>)}
        \cup {CorruptStream(h, 0, 4, <<>>) \o [i \in 1..(PKT_SIZE - 4) |-> 0] : h \in CorruptHeaders}

\* parser.feed(chunk) with the next n bytes of the stream
StreamFeed(n) ==
    LET r == feed(p_buf, SubSeq(pkt, cut + 1, cut + n))
    IN  /\ cut + n <= Len(pkt)
        /\ cut' = cut + n
        /\ p_buf' = r[1]
        /\ p_out' = p_out \o r[2]
        /\ p_fed' = IF p_fed < 2 THEN p_fed + 1 ELSE p_fed
        /\ UNCHANGED <<pkt, w_buf, w_out, w_fed, netVars, ringVars, extraVars>>

\* a parser after ImuStreamParser(), and a stream: noise, a frame, noise
StreamInit ==
    /\ NetInit
    /\ RingIdle
    /\ ExtraIdle
    /\ \E g \in Noise, f \in Frames, t \in Noise : pkt = g \o f \o t
    /\ cut = 0
    /\ p_buf = <<>>
    /\ p_out = <<>>
    /\ p_fed = 0
    /\ w_buf = <<>>
    /\ w_out = <<>>
    /\ w_fed = 0

\* one of the two parsers, fresh, with its stream
RemainInit == StreamInit \/ LidarInit

RemainNext ==
    \/ \E n \in 1..(PKT_SIZE + 2 * MaxNoise) : StreamFeed(n)
    \/ \E n \in 1..(MaxGarbage + 5) : LidarFeed(n)

SpecRemain == RemainInit /\ [][RemainNext]_vars

\* ------------------------------------------------------- remainder claims

\* The magic sequence occurs somewhere in b.
HasMagic(b) == \E i \in 1..(Len(b) - 1) : b[i] = MAGIC_BYTES[1] /\ b[i + 1] = MAGIC_BYTES[2]

\* b begins with the magic sequence.
BeginsWithMagic(b) == Len(b) >= 2 /\ b[1] = MAGIC_BYTES[1] /\ b[2] = MAGIC_BYTES[2]

\* C22: after every feed call the retained remainder is shorter than a frame:
\* RPLidarA1Parser.buf holds at most 4 bytes, and ImuStreamParser.buf holds
\* either at most 1 byte without the magic, or fewer than 32 bytes that begin
\* with the magic sequence.
C22_RemainderShort ==
    /\ Len(l_buf) <= 4
    /\ \/ Len(p_buf) <= 1 /\ ~HasMagic(p_buf)
       \/ Len(p_buf) < PKT_SIZE /\ BeginsWithMagic(p_buf)

\* An ImuStreamParser feed has returned a sample and kept the start of a frame.
C22_Witness == cut > 0 /\ p_out # <<>> /\ BeginsWithMagic(p_buf)

\* An ImuStreamParser feed of magic-free bytes has kept one byte of several.
C22_OneByteWitness == cut > 1 /\ Len(p_buf) = 1 /\ p_out = <<>>

\* A RPLidarA1Parser feed has returned with 4 bytes retained.
C22_LidarWitness == l_pos > 4 /\ Len(l_buf) = 4

\* ================================ ImuService.status against the locked append

\* The lists pkts of this part: seq values 5 and 6 only
StatusBatches == {b \in Batches : \A i \in 1..Len(b) : b[i].seq \in {5, 6}}

\* The statements of _loop inside `with self._lock`
InLock == {"a_append", "a_seq", "a_count"}

\* Samples handed to a consumer thread by feed() and not yet counted
RECURSIVE Pending(_)
Pending(k) == IF k = 0 THEN 0 ELSE Len(th_pkts[k]) + Pending(k - 1)

\* (mutant: self._lock is never waited for)
LockIgnored == TRUE

\* self._lock can be acquired: no thread is inside a `with self._lock` block
LockFree == \A k \in Starts : th_pc[k] \notin InLock

\* pkts = self.parser.feed(chunk), not empty
StatusFeed(k, pkts) ==
    /\ th_pc[k] = "l_feed"
    /\ Len(appended) + Pending(MaxStart) + Len(pkts) <= MaxAppend
    /\ th_pkts' = [th_pkts EXCEPT ![k] = pkts]
    /\ th_pc' = [th_pc EXCEPT ![k] = "l_append"]
    /\ query' = <<>>
    /\ reply' = <<>>
    /\ UNCHANGED <<_buf, _rx_packets, _last_seq, appended, svc_stop, _th, svc_pc,
                   th_chunk, parser_buf, net_conn, net_nconn, net_queue, peer_last, nonSvc>>

\* with self._lock: (entered)
StoreLock(k) ==
    /\ th_pc[k] = "l_append"
    /\ LockFree
    /\ th_pc' = [th_pc EXCEPT ![k] = "a_append"]
    /\ query' = <<>>
    /\ reply' = <<>>
    /\ UNCHANGED <<_buf, _rx_packets, _last_seq, appended, svc_stop, _th, svc_pc,
                   th_chunk, th_pkts, parser_buf, net_conn, net_nconn, net_queue,
                   peer_last, nonSvc>>

\* self._buf.append(p)
StoreAppend(k) ==
    /\ th_pc[k] = "a_append"
    /\ _buf' = DequeAppend(_buf, Head(th_pkts[k]))
    /\ appended' = Append(appended, Head(th_pkts[k]))
    /\ th_pc' = [th_pc EXCEPT ![k] = "a_seq"]
    /\ query' = <<>>
    /\ reply' = <<>>
    /\ UNCHANGED <<_rx_packets, _last_seq, svc_stop, _th, svc_pc, th_chunk, th_pkts,
                   parser_buf, net_conn, net_nconn, net_queue, peer_last, nonSvc>>

\* self._last_seq = p["seq"]
StoreSeq(k) ==
    /\ th_pc[k] = "a_seq"
    /\ _last_seq' = Head(th_pkts[k]).seq
    /\ th_pc' = [th_pc EXCEPT ![k] = "a_count"]
    /\ query' = <<>>
    /\ reply' = <<>>
    /\ UNCHANGED <<_buf, _rx_packets, appended, svc_stop, _th, svc_pc, th_chunk,
                   th_pkts, parser_buf, net_conn, net_nconn, net_queue, peer_last, nonSvc>>

\* self._rx_packets += 1, then the next p of pkts, or the end of the with block
\* (self._last_rx_time = now is not modelled) and the next pass of the loop
StoreCount(k) ==
    /\ th_pc[k] = "a_count"
    /\ _rx_packets' = _rx_packets + 1
    /\ th_pkts' = [th_pkts EXCEPT ![k] = Tail(th_pkts[k])]
    /\ th_pc' = [th_pc EXCEPT ![k] = IF Tail(th_pkts[k]) = <<>> THEN "l_feed" ELSE "a_append"]
    /\ query' = <<>>
    /\ reply' = <<>>
    /\ UNCHANGED <<_buf, _last_seq, appended, svc_stop, _th, svc_pc, th_chunk,
                   parser_buf, net_conn, net_nconn, net_queue, peer_last, nonSvc>>

\* status(): with self._lock: return {"buf_len": len(self._buf),
\* "rx_packets": int(self._rx_packets), "last_seq": self._last_seq, ...}
\* ("connected" and "last_rx_age_s" are not modelled)
Status ==
    /\ LockFree
    /\ query' = <<"status">>
    /\ reply' = [buf_len |-> Len(_buf), rx_packets |-> _rx_packets, last_seq |-> _last_seq]
    /\ UNCHANGED <<_buf, _rx_packets, _last_seq, appended, svcVars, nonSvc>>

\* an ImuService whose consumer threads 1..n run _loop: one after start(), more
\* after restarts that left the older ones running
StatusInit ==
    /\ NetInit
    /\ RingIdle
    /\ ImuIdle
    /\ LidarIdle
    /\ DiscIdle
    /\ svc_stop = FALSE
    /\ \E n \in Starts :
          /\ _th = n
          /\ th_pc = [k \in Starts |-> IF k <= n THEN "l_feed" ELSE "none"]
    /\ svc_pc = "idle"
    /\ th_chunk = [k \in Starts |-> <<>>]
    /\ th_pkts = [k \in Starts |-> <<>>]
    /\ parser_buf = <<>>
    /\ net_conn = 0
    /\ net_nconn = 0
    /\ net_queue = <<>>
    /\ peer_last = [k \in Starts |-> 0]

StatusNext ==
    \/ \E k \in Starts, pkts \in StatusBatches : StatusFeed(k, pkts)
    \/ \E k \in Starts : StoreLock(k)
    \/ \E k \in Starts : StoreAppend(k)
    \/ \E k \in Starts : StoreSeq(k)
    \/ \E k \in Starts : StoreCount(k)
    \/ Status

SpecStatus == StatusInit /\ [][StatusNext]_vars

\* ------------------------------------------------------------ status() claims

\* status() has just returned: reply is its snapshot, of the state as it is.
StatusTaken == query = <<"status">>

\* C23: every status() snapshot is consistent: buf_len is min(rx_packets,
\* capacity), last_seq is None exactly when rx_packets is 0 and otherwise the
\* seq of the newest sample of the ring, and no batch is partially appended
\* when the snapshot is taken.
C23_StatusConsistent ==
    StatusTaken =>
        /\ reply.buf_len = (IF reply.rx_packets < BufMax THEN reply.rx_packets ELSE BufMax)
        /\ IF reply.rx_packets = 0
           THEN reply.last_seq = "None"
           ELSE reply.last_seq = _buf[Len(_buf)].seq
        /\ \A k \in Starts : th_pc[k] \notin InLock
        /\ reply.rx_packets = Len(appended)

\* A snapshot taken of a ring that has overflowed, while a consumer thread
\* holds a batch it has not begun to append.
C23_Witness ==
    /\ StatusTaken
    /\ reply.rx_packets > BufMax
    /\ \E k \in Starts : th_pc[k] = "l_append"

\* ======================= ImuService across stop() and start(): the parser's bytes

\* Packets the peer of one connection sends, at most
MaxPackets == 2

\* The packet the peer of connection c sends, again and again: valid, with
\* every payload byte equal to c
ConnPacket(c) ==
    [i \in 1..PKT_SIZE |-> IF i <= 2 THEN MAGIC_BYTES[i] ELSE IF i <= 4 THEN 1 ELSE c]

\* Bytes from + 1 .. from + n of the stream of connection c
ConnBytes(c, from, n) == [i \in 1..n |-> ConnPacket(c)[((from + i - 1) % PKT_SIZE) + 1]]

\* The sizes of the chunks sock.recv(4096) returns: half a packet, or a whole one
ChunkSizes == {PKT_SIZE \div 2, PKT_SIZE}

\* the receive thread of the open connection queues the next n bytes its peer sent
PeerSendBytes(n) ==
    /\ net_conn # 0
    /\ Len(net_queue) < RxQueueMax
    /\ peer_last[net_conn] + n <= MaxPackets * PKT_SIZE
    /\ net_queue' = Append(net_queue, [conn |-> net_conn,
                                       data |-> ConnBytes(net_conn, peer_last[net_conn], n)])
    /\ peer_last' = [peer_last EXCEPT ![net_conn] = peer_last[net_conn] + n]
    /\ UNCHANGED <<svc_stop, _th, svc_pc, th_pc, th_chunk, th_pkts, parser_buf, net_conn,
                   net_nconn, ringVars, nonSvc>>

RestartInit == SvcInit

RestartNext ==
    \/ CallStop
    \/ CallStart
    \/ StartConnect
    \/ StartClear
    \/ StartSpawn
    \/ \E n \in ChunkSizes : PeerSendBytes(n)
    \/ \E k \in Starts : LoopCheck(k) \/ LoopGet(k) \/ LoopFeed(k) \/ LoopStore(k)

SpecRestart == RestartInit /\ [][RestartNext]_vars

\* ------------------------------------------------- claims across stop() and start()

\* The sample is the decoding of 32 contiguous bytes of one connection: of the
\* packet its peer sends.
FromOneConnection(p) == \E c \in Starts : p = Sample(ConnPacket(c))

\* C24: every sample appended to the ring is decoded from 32 contiguous bytes
\* received on a single connection, never from leftover bytes of an earlier
\* connection joined with bytes of the current one.
C24_SamplesFromOneConnection ==
    \A i \in 1..Len(appended) : FromOneConnection(appended[i])

\* Samples of whole packets of two connections are in the ring.
C24_BothConnections ==
    \E i, j \in 1..Len(appended) :
        /\ appended[i] = Sample(ConnPacket(1))
        /\ appended[j] = Sample(ConnPacket(2))

\* The same of the samples stored by the consumer thread of the open
\* connection while it is the only one running _loop.
C24_SoleConsumerWholeSamples ==
    [][\A k \in Starts :
        (/\ th_pc[k] = "l_append"
         /\ th_pc'[k] # "l_append"
         /\ net_conn = k
         /\ \A j \in Starts : j # k => ~Looping(j))
            => \A i \in 1..Len(th_pkts[k]) : FromOneConnection(th_pkts[k][i])]_vars

====
